---- MODULE Spec2Model ----
(***************************************************************************)
(* Model of the gitignore-style ignore matcher of raphamorim/notify        *)
(* (src/ignore.go, lines 1-260: IgnoreMatcher, AddPattern, LoadIgnoreFile, *)
(* ShouldIgnore, matchPattern, matchGlob, matchDoublestar, indexGlob).     *)
(*                                                                         *)
(* Strings are TLA+ strings, i.e. sequences of characters: Len, SubSeq and *)
(* \o are the only primitives used on them.  Go's 0-based byte indices are *)
(* kept in the operators that return an index (Index, indexGlob).          *)
(* Pattern texts of the model are drawn from an alphabet without '[' and   *)
(* '\', so Match models the literal, '?' and '*' cases of filepath.Match.  *)
(***************************************************************************)
EXTENDS Integers, Sequences, FiniteSets, TLC

VARIABLES im, nCalls, last, test, active, stream

vars == <<im, nCalls, last, test, active, stream>>

-----------------------------------------------------------------------------
(* package strings *)

\* s[i], i 0-based as in Go
At(s, i) == SubSeq(s, i + 1, i + 1)

\* s[i:]
From(s, i) == SubSeq(s, i + 1, Len(s))

HasPrefix(s, prefix) ==
    Len(s) >= Len(prefix) /\ SubSeq(s, 1, Len(prefix)) = prefix

HasSuffix(s, suffix) ==
    Len(s) >= Len(suffix) /\ SubSeq(s, Len(s) - Len(suffix) + 1, Len(s)) = suffix

TrimPrefix(s, prefix) ==
    IF HasPrefix(s, prefix) THEN From(s, Len(prefix)) ELSE s

TrimSuffix(s, suffix) ==
    IF HasSuffix(s, suffix) THEN SubSeq(s, 1, Len(s) - Len(suffix)) ELSE s

\* the ASCII white space of unicode.IsSpace that the model's lines can hold
IsSpace(c) == c \in {" ", "\t", "\n", "\r", "\f"}

RECURSIVE TrimLeftSpace(_)
TrimLeftSpace(s) ==
    IF s # "" /\ IsSpace(At(s, 0)) THEN TrimLeftSpace(From(s, 1)) ELSE s

RECURSIVE TrimRightSpace(_)
TrimRightSpace(s) ==
    IF s # "" /\ IsSpace(At(s, Len(s) - 1))
    THEN TrimRightSpace(SubSeq(s, 1, Len(s) - 1))
    ELSE s

TrimSpace(s) == TrimRightSpace(TrimLeftSpace(s))

RECURSIVE TrimLeft(_, _)
TrimLeft(s, cut) ==
    IF s # "" /\ At(s, 0) = cut THEN TrimLeft(From(s, 1), cut) ELSE s

RECURSIVE TrimRight(_, _)
TrimRight(s, cut) ==
    IF s # "" /\ At(s, Len(s) - 1) = cut
    THEN TrimRight(SubSeq(s, 1, Len(s) - 1), cut)
    ELSE s

\* strings.Trim(s, cutset) for a cutset of one character
Trim(s, cut) == TrimRight(TrimLeft(s, cut), cut)

RECURSIVE IndexFrom(_, _, _)
IndexFrom(s, substr, i) ==
    IF i + Len(substr) > Len(s) THEN -1
    ELSE IF SubSeq(s, i + 1, i + Len(substr)) = substr THEN i
    ELSE IndexFrom(s, substr, i + 1)

\* strings.Index: the 0-based index of the first instance of substr, or -1
Index(s, substr) == IndexFrom(s, substr, 0)

Contains(s, substr) == Index(s, substr) >= 0

ContainsAny(s, chars) ==
    \E i \in 0..(Len(s) - 1) : \E j \in 0..(Len(chars) - 1) : At(s, i) = At(chars, j)

RECURSIVE Split(_, _)
Split(s, sep) ==
    LET i == Index(s, sep)
    IN  IF i = -1 THEN <<s>>
        ELSE <<SubSeq(s, 1, i)>> \o Split(From(s, i + Len(sep)), sep)

RECURSIVE Join(_, _)
Join(elems, sep) ==
    IF Len(elems) = 0 THEN ""
    ELSE IF Len(elems) = 1 THEN elems[1]
    ELSE elems[1] \o sep \o Join(Tail(elems), sep)

-----------------------------------------------------------------------------
(* package path/filepath *)

Separator == "/"

RECURSIVE ReplaceSep(_)
ReplaceSep(s) ==
    IF s = "" THEN ""
    ELSE (IF At(s, 0) = Separator THEN "/" ELSE At(s, 0)) \o ReplaceSep(From(s, 1))

\* filepath.ToSlash: every Separator becomes a slash
ToSlash(path) == ReplaceSep(path)

RECURSIVE StarCount(_)
StarCount(pattern) ==
    IF pattern # "" /\ At(pattern, 0) = "*" THEN 1 + StarCount(From(pattern, 1)) ELSE 0

\* filepath.scanChunk: the leading stars, the text up to the next star, the rest
scanChunk(pattern) ==
    LET n    == StarCount(pattern)
        body == From(pattern, n)
        i    == Index(body, "*")
    IN  [star  |-> n > 0,
         chunk |-> IF i = -1 THEN body ELSE SubSeq(body, 1, i),
         rest  |-> IF i = -1 THEN "" ELSE From(body, i)]

RECURSIVE matchChunk(_, _)
\* filepath.matchChunk: chunk matched at the start of s, and what is left of s
matchChunk(chunk, s) ==
    IF chunk = "" THEN [ok |-> TRUE, rest |-> s]
    ELSE IF s = "" THEN [ok |-> FALSE, rest |-> ""]
    ELSE IF At(chunk, 0) = "?"
         THEN IF At(s, 0) = Separator THEN [ok |-> FALSE, rest |-> ""]
              ELSE matchChunk(From(chunk, 1), From(s, 1))
    ELSE IF At(chunk, 0) # At(s, 0) THEN [ok |-> FALSE, rest |-> ""]
    ELSE matchChunk(From(chunk, 1), From(s, 1))

RECURSIVE Match(_, _)
RECURSIVE starSkip(_, _, _, _)
\* the loop "Look for match skipping i+1 bytes. Cannot skip /." of filepath.Match
starSkip(chunk, rest, name, i) ==
    IF i >= Len(name) \/ At(name, i) = Separator THEN FALSE
    ELSE LET m == matchChunk(chunk, From(name, i + 1))
         IN  IF m.ok /\ ~(rest = "" /\ m.rest # "")
             THEN Match(rest, m.rest)
             ELSE starSkip(chunk, rest, name, i + 1)

\* filepath.Match(pattern, name), errors dropped as the callers drop them
Match(pattern, name) ==
    IF pattern = "" THEN name = ""
    ELSE LET sc == scanChunk(pattern)
         IN  IF sc.star /\ sc.chunk = "" THEN ~Contains(name, Separator)
             ELSE LET m == matchChunk(sc.chunk, name)
                  IN  IF m.ok /\ (m.rest = "" \/ sc.rest # "")
                      THEN Match(sc.rest, m.rest)
                      ELSE IF sc.star THEN starSkip(sc.chunk, sc.rest, name, 0)
                      ELSE FALSE

\* filepath.Rel(basepath, targpath) for Clean paths (the callers build them with
\* filepath.Join): "." for the base itself, the part below the base, the way up
\* and down for a path outside it, and an error when exactly one is absolute.
Rel(basepath, targpath) ==
    IF targpath = basepath THEN [err |-> FALSE, path |-> "."]
    ELSE IF HasPrefix(basepath, Separator) # HasPrefix(targpath, Separator)
         THEN [err |-> TRUE, path |-> ""]
    ELSE LET bs == Split(basepath, Separator)
             ts == Split(targpath, Separator)
             same(k) == \A j \in 1..k : bs[j] = ts[j]
             n  == CHOOSE k \in 0..Len(bs) :
                       /\ k <= Len(ts) /\ same(k)
                       /\ \A k2 \in (k + 1)..Len(bs) : ~(k2 <= Len(ts) /\ same(k2))
             up == [j \in 1..(Len(bs) - n) |-> ".."]
         IN  [err |-> FALSE, path |-> Join(up \o SubSeq(ts, n + 1, Len(ts)), "/")]

-----------------------------------------------------------------------------
(* src/ignore.go: the matcher *)

\* Outcome of a match helper: the two boolean results, and the run-time panic of
\* an out-of-range slice expression, which unwinds through every caller.
YES   == "yes"
NO    == "no"
PANIC == "panic"

Bool(b) == IF b THEN YES ELSE NO

RECURSIVE cutPoints(_, _, _)
\* indexGlob's loop "Try all cut points"
cutPoints(s, seg, i) ==
    IF i > Len(s) THEN -1
    ELSE IF Match(seg, From(s, i)) THEN i
    ELSE cutPoints(s, seg, i + 1)

indexGlob(s, seg) ==
    IF ~ContainsAny(seg, "*?[") THEN Index(s, seg) ELSE cutPoints(s, seg, 0)

RECURSIVE scanSegments(_, _, _)
\* one round of matchDoublestar's loop once idx = indexGlob(cur, seg) is known;
\* the slice cur[idx+len(seg):] panics when its low bound exceeds len(cur)
cutAt(parts, i, cur, seg, idx) ==
    IF idx = -1 THEN NO
    ELSE IF idx + Len(seg) > Len(cur) THEN PANIC
    ELSE scanSegments(parts, i + 1, From(cur, idx + Len(seg)))

\* matchDoublestar's loop over parts[1:]: each segment must appear in order
scanSegments(parts, i, cur) ==
    IF i > Len(parts) THEN YES
    ELSE LET seg == Trim(parts[i], "/")
         IN  IF seg = "" THEN scanSegments(parts, i + 1, cur)
             ELSE cutAt(parts, i, cur, seg, indexGlob(cur, seg))

\* matchDoublestar without the check that the path starts with the text before "**"
matchDoublestarNoPrefix(pattern0, path0) ==
    LET pattern == ToSlash(pattern0)
        path    == ToSlash(path0)
        parts   == Split(pattern, "**")
        leading == TrimSuffix(parts[1], "/")
        lead    == TrimPrefix(leading, "/")
    IN  IF Trim(pattern, "/") = "**" THEN YES
        ELSE scanSegments(parts, 2,
                 IF leading # "" THEN TrimPrefix(TrimPrefix(path, lead), "/") ELSE path)

matchDoublestar(pattern0, path0) ==
    LET pattern == ToSlash(pattern0)
        path    == ToSlash(path0)
        parts   == Split(pattern, "**")
        leading == TrimSuffix(parts[1], "/")
        lead    == TrimPrefix(leading, "/")
    IN  IF Trim(pattern, "/") = "**" THEN YES
        ELSE IF leading # "" /\ ~HasPrefix(path, lead) THEN NO
        ELSE scanSegments(parts, 2,
                 IF leading # "" THEN TrimPrefix(TrimPrefix(path, lead), "/") ELSE path)

matchGlob(pattern, path) ==
    IF Contains(pattern, "**") THEN matchDoublestar(pattern, path)
    ELSE IF Match(pattern, path) THEN YES
    ELSE LET parts == Split(path, "/")
         IN  Bool(\E i \in 1..Len(parts) : Match(pattern, parts[i]))

\* "if a { return true }" followed by b: a match or a panic of a ends the
\* function, otherwise b decides
orElse(a, b) == IF a # NO THEN a ELSE b

RECURSIVE matchLevels(_, _, _)
\* matchLevels trying the directory names only, not the paths below them
matchLevelsNames(pattern, parts, i) ==
    IF i > Len(parts) THEN NO
    ELSE orElse(matchGlob(pattern, parts[i]),
                matchLevels(pattern, parts, i + 1))

\* matchPattern's loop "Pattern can match at any level"
matchLevels(pattern, parts, i) ==
    IF i > Len(parts) THEN NO
    ELSE orElse(matchGlob(pattern, Join(SubSeq(parts, i, Len(parts)), "/")),
                orElse(matchGlob(pattern, parts[i]),
                       matchLevels(pattern, parts, i + 1)))

matchPattern(pattern, path) ==
    IF HasPrefix(pattern, "/") THEN matchGlob(From(pattern, 1), path)
    ELSE orElse(matchGlob(pattern, path), matchLevels(pattern, Split(path, "/"), 1))

\* the condition of ShouldIgnore's directory branch, m being matchPattern's
\* result: "im.matchPattern(pat, relPath) || strings.HasPrefix(relPath+"/", pat+"/")"
\* dirHits comparing the prefix without the separator
dirHitsNoSeparator(m, pat, relPath) ==
    IF m = NO /\ HasPrefix(relPath, pat) THEN YES ELSE m

dirHits(m, pat, relPath) ==
    IF m = NO /\ HasPrefix(relPath \o "/", pat \o "/") THEN YES ELSE m

\* the body of ShouldIgnore's loop for one pattern: whether p decides the path
\* (when the directory branch fails, the regular branch repeats its matchPattern)
patternHits(p, relPath) ==
    IF p.isDir
    THEN dirHits(matchPattern(TrimPrefix(p.pattern, "./"), relPath),
                 TrimPrefix(p.pattern, "./"), relPath)
    ELSE matchPattern(TrimPrefix(p.pattern, "./"), relPath)

\* ShouldIgnore's relPath: relative to the root, slashes, no leading "./"
relPathOf(root, path) ==
    LET r == Rel(root, path)
    IN  TrimPrefix(ToSlash(IF r.err THEN path ELSE r.path), "./")

\* ShouldIgnore's isDir; stat is what os.Stat(path) gives: "dir", "file" or "error"
isDirOf(relPath, stat) == HasSuffix(relPath, "/") \/ stat = "dir"

NewIgnoreMatcher(root) == [root |-> root, patterns |-> <<>>]

\* the pattern list after im.AddPattern(line)
\* addPattern leaving out a pattern the list already holds
addPatternOnce(patterns, line) ==
    LET pattern == TrimSpace(line)
        neg     == HasPrefix(pattern, "!")
        body    == IF neg THEN From(pattern, 1) ELSE pattern
        dir     == HasSuffix(body, "/")
        p       == [pattern  |-> IF dir THEN TrimSuffix(body, "/") ELSE body,
                    isNegate |-> neg,
                    isDir    |-> dir]
    IN  IF pattern = "" \/ HasPrefix(pattern, "#") THEN patterns
        ELSE IF \E i \in 1..Len(patterns) : patterns[i] = p THEN patterns
        ELSE Append(patterns, p)

\* addPattern keeping the trailing "/" of a directory pattern
addPatternKeepSlash(patterns, line) ==
    LET pattern == TrimSpace(line)
        neg     == HasPrefix(pattern, "!")
        body    == IF neg THEN From(pattern, 1) ELSE pattern
        dir     == HasSuffix(body, "/")
    IN  IF pattern = "" \/ HasPrefix(pattern, "#") THEN patterns
        ELSE Append(patterns, [pattern  |-> body,
                               isNegate |-> neg,
                               isDir    |-> dir])

\* addPattern skipping empty lines only, not comments
addPatternComments(patterns, line) ==
    LET pattern == TrimSpace(line)
        neg     == HasPrefix(pattern, "!")
        body    == IF neg THEN From(pattern, 1) ELSE pattern
        dir     == HasSuffix(body, "/")
    IN  IF pattern = "" THEN patterns
        ELSE Append(patterns, [pattern  |-> IF dir THEN TrimSuffix(body, "/") ELSE body,
                               isNegate |-> neg,
                               isDir    |-> dir])

addPattern(patterns, line) ==
    LET pattern == TrimSpace(line)
        neg     == HasPrefix(pattern, "!")
        body    == IF neg THEN From(pattern, 1) ELSE pattern
        dir     == HasSuffix(body, "/")
    IN  IF pattern = "" \/ HasPrefix(pattern, "#") THEN patterns
        ELSE Append(patterns, [pattern  |-> IF dir THEN TrimSuffix(body, "/") ELSE body,
                               isNegate |-> neg,
                               isDir    |-> dir])

RECURSIVE addPatterns(_, _)
\* AddPattern called on each line in order
addPatterns(patterns, lines) ==
    IF Len(lines) = 0 THEN patterns
    ELSE addPatterns(addPattern(patterns, Head(lines)), Tail(lines))

-----------------------------------------------------------------------------
(* ignore files on disk, and bufio.Scanner *)

\* bufio.ScanLines' dropCR
dropCR(data) == IF HasSuffix(data, "\r") THEN SubSeq(data, 1, Len(data) - 1) ELSE data

RECURSIVE scanLines(_)
\* scanLines losing a last line that has no end-of-line marker
scanLinesTerminated(content) ==
    IF content = "" THEN <<>>
    ELSE LET i == Index(content, "\n")
         IN  IF i = -1 THEN <<>>
             ELSE <<dropCR(SubSeq(content, 1, i))>> \o scanLines(From(content, i + 1))

\* the tokens bufio.Scanner yields with its default split function ScanLines:
\* each line without its end-of-line marker, the last one also when unterminated
scanLines(content) ==
    IF content = "" THEN <<>>
    ELSE LET i == Index(content, "\n")
         IN  IF i = -1 THEN <<dropCR(content)>>
             ELSE <<dropCR(SubSeq(content, 1, i))>> \o scanLines(From(content, i + 1))

RECURSIVE writeLines(_, _, _)
\* the text of a file written from lines, each ended by eol, the last one only if
\* final (TestLoadIgnoreFile writes its file this way, eol "\n", final TRUE)
writeLines(lines, eol, final) ==
    IF Len(lines) = 0 THEN ""
    ELSE IF Len(lines) = 1 THEN Head(lines) \o (IF final THEN eol ELSE "")
    ELSE Head(lines) \o eol \o writeLines(Tail(lines), eol, final)

\* the lines of the ignore files that exist, by path
FileLines ==
    (".notifyignore" :> <<"# Ignore patterns", ".git/", "*.tmp", "build/",
                          "!build/keep.txt", "node_modules/">>)
    @@ (".gitignore" :> <<"*.log", "", "  # local", " !build/ ">>)
    @@ ("win.ignore" :> <<"/src", "build/">>)

\* the disk: the text of each ignore file that exists
Disk ==
    (".notifyignore" :> writeLines(FileLines[".notifyignore"], "\n", TRUE))
    @@ (".gitignore" :> writeLines(FileLines[".gitignore"], "\n", FALSE))
    @@ ("win.ignore" :> writeLines(FileLines["win.ignore"], "\r\n", TRUE))

\* paths LoadIgnoreFile is called with; "absent.ignore" does not exist
FilePaths == DOMAIN Disk \cup {"absent.ignore"}

\* what the operating system does to a load of a file that exists: the file is
\* read to its end, os.Open fails, or a Read fails after some bytes
OpenResults == {"ok", "denied"}
ReadFailure == "ioerr"
IOResults == OpenResults \cup {ReadFailure}

\* how many bytes of a file the scanner can get before a Read fails
ReadCounts(path) == IF path \in DOMAIN Disk THEN 0..Len(Disk[path]) ELSE {0}

\* the byte counts that end a line or the file, and none
LineEnds(path) ==
    {n \in ReadCounts(path) :
        n = 0 \/ n = Len(Disk[path]) \/ At(Disk[path], n - 1) = "\n"}

-----------------------------------------------------------------------------
(* inputs *)

Root == "/r"

StatResults == {"dir", "file", "error"}

\* bound of Spec: the number of AddPattern and LoadIgnoreFile calls
MaxCalls == 2

\* lines AddPattern is called with in Spec
Lines == {"build/", "!build/", "*.log", "!*.log", "/src", "**/tmp*", "# c", " \t"}

\* paths ShouldIgnore is called with in Spec
Probes == {"/r/build", "/r/build/out.log", "/r/builder", "/r/src", "/r/lib/src",
           "/r/tmp", "/r", "/x/a.log", "build/x"}

Add(line) == [op |-> "AddPattern", arg |-> line]
Load(path) == [op |-> "LoadIgnoreFile", arg |-> path]

\* the calls that build the matcher in src/ignore_test.go
TestIgnoreMatcher ==
    <<Add(".git/"), Add("node_modules/"), Add("build/"), Add("*.log"),
      Add("!build/important.log")>>
TestIgnoreWithWatch == <<Add(".git/"), Add("node_modules/"), Add("*.tmp")>>
TestLoadIgnoreFile == <<Load(".notifyignore")>>
TestDoublestarPatterns ==
    <<Add("**/node_modules/"), Add("**/*.log"), Add("src/**/test/")>>

\* the programs of SpecTests: the tests, and matchers of one pattern
Scripts ==
    {TestIgnoreMatcher, TestIgnoreWithWatch, TestLoadIgnoreFile, TestDoublestarPatterns,
     <<Add("build/")>>, <<Add("/src")>>, <<Add("**/*.log")>>, <<Add("src/**/test/")>>,
     <<Add("*.{jpg,png}")>>, <<Add("src/**/test")>>, <<Add("src")>>, <<Add("a/test")>>,
     <<Add("temp*")>>}

\* the paths below the root that the tests and the events name
TestRelPaths ==
    {".git", ".git/objects", ".git/config", "node_modules", "node_modules/package1",
     "node_modules/package.json", "build", "build/output", "build/output/file.txt",
     "build/important.log", "build/output.bin", "build/keep.txt", "builder",
     "src", "src/main", "src/main.go", "src/debug.log", "src/logs/error.log",
     "src/node_modules", "src/lib/node_modules", "src/test", "src/a/test",
     "src/a/b/test", "src/lib/test", "lib/src", "docs", "docs/readme.md",
     "test", "other/test", "test.log", "test.tmp", "debug.log",
     "photo.jpg", "photo.png", "photo.gif", "img/photo.jpg", "img/photo.png",
     "photo.{jpg,png}", "src/mytest", "srcfoo/test", "temp1", "tmp/temp1/x"}

\* filepath.Join(tmpDir, rel)
TestProbes == {Root \o Separator \o rel : rel \in TestRelPaths}

\* every line and every path of the model
AllLines ==
    Lines \cup UNION {{FileLines[f][i] : i \in 1..Len(FileLines[f])} : f \in DOMAIN FileLines}
          \cup UNION {{sc[i].arg : i \in {j \in 1..Len(sc) : sc[j].op = "AddPattern"}} : sc \in Scripts}
AllPaths == Probes \cup TestProbes

\* patternHits tabulated over the patterns and paths of the model, so that each
\* value is computed once
hitsOf ==
    [p \in UNION {{q[i] : i \in 1..Len(q)} : q \in {addPattern(<<>>, l) : l \in AllLines}},
     relPath \in {relPathOf(Root, path) : path \in AllPaths} |-> patternHits(p, relPath)]

RECURSIVE rangePatterns(_, _, _, _)
\* decide returning at the first deciding pattern
decideFirst(patterns, i, relPath, ignored, hit) ==
    IF hit = PANIC THEN [panic |-> TRUE, ret |-> FALSE]
    ELSE IF hit = YES THEN [panic |-> FALSE, ret |-> ~patterns[i].isNegate]
    ELSE rangePatterns(patterns, i + 1, relPath, ignored)

\* decide in which a negated pattern cannot clear a decision to ignore
decideSticky(patterns, i, relPath, ignored, hit) ==
    IF hit = PANIC THEN [panic |-> TRUE, ret |-> FALSE]
    ELSE rangePatterns(patterns, i + 1, relPath,
             IF hit = YES THEN ignored \/ ~patterns[i].isNegate ELSE ignored)

\* one round of ShouldIgnore's loop once hit, whether patterns[i] decides the
\* path, is known: a deciding pattern overwrites the running decision
decide(patterns, i, relPath, ignored, hit) ==
    IF hit = PANIC THEN [panic |-> TRUE, ret |-> FALSE]
    ELSE rangePatterns(patterns, i + 1, relPath,
             IF hit = YES THEN ~patterns[i].isNegate ELSE ignored)

\* ShouldIgnore's loop "for _, p := range im.patterns" with its running decision
rangePatterns(patterns, i, relPath, ignored) ==
    IF i > Len(patterns) THEN [panic |-> FALSE, ret |-> ignored]
    ELSE decide(patterns, i, relPath, ignored, hitsOf[patterns[i], relPath])

\* the receiver of a method call on a nil *IgnoreMatcher
Nil == [nil |-> TRUE]

\* shouldIgnore giving false for a path os.Stat fails on
shouldIgnoreExisting(m, path, stat) ==
    IF m = Nil THEN [panic |-> FALSE, ret |-> FALSE]
    ELSE IF Len(m.patterns) = 0 THEN [panic |-> FALSE, ret |-> FALSE]
    ELSE IF stat = "error" THEN [panic |-> FALSE, ret |-> FALSE]
    ELSE rangePatterns(m.patterns, 1, relPathOf(m.root, path), FALSE)

\* the value im.ShouldIgnore(path) returns (or its panic) for a matcher m
shouldIgnore(m, path, stat) ==
    IF m = Nil THEN [panic |-> FALSE, ret |-> FALSE]
    ELSE IF Len(m.patterns) = 0 THEN [panic |-> FALSE, ret |-> FALSE]
    ELSE rangePatterns(m.patterns, 1, relPathOf(m.root, path), FALSE)

-----------------------------------------------------------------------------
(* state *)

NoCall == [op |-> "none", recv |-> "", arg |-> "", stat |-> "", ret |-> FALSE,
           panic |-> FALSE, err |-> "nil", n |-> 0]

NoTest == [steps |-> <<>>, pc |-> 0]

\* a fresh matcher, an idle caller, no matcher installed, nothing delivered
Init ==
    /\ im = NewIgnoreMatcher(Root)
    /\ nCalls = 0
    /\ last = NoCall
    /\ test = NoTest
    /\ active = FALSE
    /\ stream = <<>>

\* im.AddPattern(line), called by the idle caller
AddPattern(line) ==
    /\ last = NoCall
    /\ im' = [im EXCEPT !.patterns = addPattern(@, line)]
    /\ nCalls' = nCalls + 1
    /\ last' = [NoCall EXCEPT !.op = "AddPattern", !.recv = "im", !.arg = line]
    /\ UNCHANGED <<active, stream>>

\* LoadIgnoreFile returning the open error of a file that does not exist
LoadIgnoreFileStrict(path, open, n) ==
    /\ last = NoCall
    /\ nCalls' = nCalls + 1
    /\ UNCHANGED <<active, stream>>
    /\ IF path \notin DOMAIN Disk
       THEN /\ open = "ok" /\ n = 0
            /\ im' = im
            /\ last' = [NoCall EXCEPT !.op = "LoadIgnoreFile", !.recv = "im",
                                      !.arg = path, !.err = "open"]
       ELSE IF open = "denied"
       THEN /\ n = 0
            /\ im' = im
            /\ last' = [NoCall EXCEPT !.op = "LoadIgnoreFile", !.recv = "im",
                                      !.arg = path, !.err = "open"]
       ELSE /\ n \in ReadCounts(path)
            /\ open = "ok" => n = Len(Disk[path])
            /\ im' = [im EXCEPT !.patterns =
                                addPatterns(@, scanLines(SubSeq(Disk[path], 1, n)))]
            /\ last' = [NoCall EXCEPT !.op = "LoadIgnoreFile", !.recv = "im",
                                      !.arg = path, !.n = n,
                                      !.err = IF open = "ok" THEN "nil" ELSE "read"]

\* LoadIgnoreFile undoing its appends when a Read fails
LoadIgnoreFileAtomic(path, open, n) ==
    /\ last = NoCall
    /\ nCalls' = nCalls + 1
    /\ UNCHANGED <<active, stream>>
    /\ IF path \notin DOMAIN Disk
       THEN /\ open = "ok" /\ n = 0
            /\ im' = im
            /\ last' = [NoCall EXCEPT !.op = "LoadIgnoreFile", !.recv = "im",
                                      !.arg = path, !.err = "nil"]
       ELSE IF open = "denied"
       THEN /\ n = 0
            /\ im' = im
            /\ last' = [NoCall EXCEPT !.op = "LoadIgnoreFile", !.recv = "im",
                                      !.arg = path, !.err = "open"]
       ELSE /\ n \in ReadCounts(path)
            /\ open = "ok" => n = Len(Disk[path])
            /\ im' = IF open = ReadFailure THEN im
                     ELSE [im EXCEPT !.patterns =
                                addPatterns(@, scanLines(SubSeq(Disk[path], 1, n)))]
            /\ last' = [NoCall EXCEPT !.op = "LoadIgnoreFile", !.recv = "im",
                                      !.arg = path, !.n = n,
                                      !.err = IF open = "ok" THEN "nil" ELSE "read"]

\* im.LoadIgnoreFile(path): os.Open gives the file, IsNotExist (no such path) or
\* another error (open = "denied"); the scanner gets the whole file (open = "ok")
\* or its first n bytes before a Read fails (open = ReadFailure), and yields the
\* lines of what it got, an unfinished last line included; scanner.Err() is the
\* error of the failed Read
LoadIgnoreFile(path, open, n) ==
    /\ last = NoCall
    /\ nCalls' = nCalls + 1
    /\ UNCHANGED <<active, stream>>
    /\ IF path \notin DOMAIN Disk
       THEN /\ open = "ok" /\ n = 0
            /\ im' = im
            /\ last' = [NoCall EXCEPT !.op = "LoadIgnoreFile", !.recv = "im",
                                      !.arg = path, !.err = "nil"]
       ELSE IF open = "denied"
       THEN /\ n = 0
            /\ im' = im
            /\ last' = [NoCall EXCEPT !.op = "LoadIgnoreFile", !.recv = "im",
                                      !.arg = path, !.err = "open"]
       ELSE /\ n \in ReadCounts(path)
            /\ open = "ok" => n = Len(Disk[path])
            /\ im' = [im EXCEPT !.patterns =
                                addPatterns(@, scanLines(SubSeq(Disk[path], 1, n)))]
            /\ last' = [NoCall EXCEPT !.op = "LoadIgnoreFile", !.recv = "im",
                                      !.arg = path, !.n = n,
                                      !.err = IF open = "ok" THEN "nil" ELSE "read"]

\* the matcher a receiver names
Receiver(recv) == IF recv = "im" THEN im ELSE Nil

\* what the caller of recv.ShouldIgnore(path) sees, r being its outcome
Returned(recv, path, stat, r) ==
    [NoCall EXCEPT !.op = "ShouldIgnore", !.recv = recv, !.arg = path,
                   !.stat = stat, !.ret = r.ret, !.panic = r.panic]

\* recv.ShouldIgnore(path), os.Stat(path) giving stat
ShouldIgnore(recv, path, stat) ==
    /\ last = NoCall
    /\ last' = Returned(recv, path, stat, shouldIgnore(Receiver(recv), path, stat))
    /\ UNCHANGED <<im, nCalls, active, stream>>

\* the call returns to its caller, which is idle again; a call that panicked
\* does not return
Return ==
    /\ last # NoCall
    /\ ~last.panic
    /\ last' = NoCall
    /\ UNCHANGED <<im, nCalls, test, active, stream>>

-----------------------------------------------------------------------------
(* Spec: any calls on one matcher, lines and paths drawn from Lines and Probes *)

Build ==
    /\ nCalls < MaxCalls
    /\ \/ \E line \in Lines : AddPattern(line)
       \/ \E path \in FilePaths \ {".notifyignore"} : \E open \in IOResults :
              \E n \in LineEnds(path) : LoadIgnoreFile(path, open, n)
    /\ UNCHANGED test

Query ==
    /\ \E recv \in {"im", "nil"} : \E path \in Probes : \E stat \in StatResults :
           ShouldIgnore(recv, path, stat)
    /\ UNCHANGED test

Next == Build \/ Query \/ Return

Spec == Init /\ [][Next]_vars

-----------------------------------------------------------------------------
(* SpecTests: the matcher is built by one of the Scripts, and queried at any *)
(* point on the paths the tests name                                          *)

InitTests ==
    /\ im = NewIgnoreMatcher(Root)
    /\ nCalls = 0
    /\ last = NoCall
    /\ test \in {[steps |-> sc, pc |-> 0] : sc \in Scripts}
    /\ active = FALSE
    /\ stream = <<>>

\* the next call of the script; the file a test loads is there and readable
Step ==
    /\ test.pc < Len(test.steps)
    /\ \/ /\ test.steps[test.pc + 1].op = "AddPattern"
          /\ AddPattern(test.steps[test.pc + 1].arg)
       \/ /\ test.steps[test.pc + 1].op = "LoadIgnoreFile"
          /\ \E n \in ReadCounts(test.steps[test.pc + 1].arg) :
                 LoadIgnoreFile(test.steps[test.pc + 1].arg, "ok", n)
    /\ test' = [test EXCEPT !.pc = @ + 1]

TestQuery ==
    /\ \E path \in TestProbes : \E stat \in StatResults : ShouldIgnore("im", path, stat)
    /\ UNCHANGED test

NextTests == Step \/ TestQuery \/ Return

SpecTests == InitTests /\ [][NextTests]_vars

-----------------------------------------------------------------------------
(* SpecWatch: the delivery path.  SetIgnoreMatcher, the watcher and its      *)
(* channel are not in src/ (TestIgnoreWithWatch calls them); they follow     *)
(* sections 4.6 and 5 of the specification: the matcher is built, installed, *)
(* and not changed while it is installed.                                     *)

\* bound of SpecWatch: the buffer of the consumer's channel
MaxStream == 2

\* the files TestIgnoreWithWatch creates
EventRelPaths ==
    {"src/main.go", ".git/config", "node_modules/package.json", "test.tmp",
     "docs/readme.md"}

EventPaths == {Root \o Separator \o rel : rel \in EventRelPaths}

InitWatch ==
    /\ im = NewIgnoreMatcher(Root)
    /\ nCalls = 0
    /\ last = NoCall
    /\ test = [steps |-> TestIgnoreWithWatch, pc |-> 0]
    /\ active = FALSE
    /\ stream = <<>>

\* the set the delivery path reads: the installed matcher, or none
GetActive == IF active THEN im ELSE Nil

\* SetIgnoreMatcher(im) and SetIgnoreMatcher(nil)
SetIgnoreMatcher(install) ==
    /\ last = NoCall
    /\ active # install
    /\ active' = install
    /\ UNCHANGED <<im, nCalls, last, test, stream>>

\* the matcher is built while it is not installed
WatchStep == ~active /\ Step

\* what the delivery of a raw event leaves behind, r being ShouldIgnore's outcome
\* under the set read: an ignored event is dropped; another is sent to the
\* channel, tagged here with the set it was filtered by, unless the buffer is full
Delivered(path, set, r) ==
    /\ last' = [NoCall EXCEPT !.op = "Deliver", !.arg = path, !.ret = r.ret,
                              !.panic = r.panic]
    /\ stream' = IF r.panic \/ r.ret \/ Len(stream) >= MaxStream THEN stream
                 ELSE Append(stream, [path |-> path, set |-> set])

\* the watcher has a raw event for path
Deliver(path, stat) ==
    /\ last = NoCall
    /\ Delivered(path, GetActive, shouldIgnore(GetActive, path, stat))
    /\ UNCHANGED <<im, nCalls, test, active>>

\* the consumer takes an event from the channel
Receive ==
    /\ last = NoCall
    /\ stream # <<>>
    /\ stream' = Tail(stream)
    /\ UNCHANGED <<im, nCalls, last, test, active>>

NextWatch ==
    \/ WatchStep
    \/ \E install \in BOOLEAN : SetIgnoreMatcher(install)
    \/ \E path \in EventPaths : \E stat \in StatResults : Deliver(path, stat)
    \/ Receive
    \/ Return

SpecWatch == InitWatch /\ [][NextWatch]_vars

-----------------------------------------------------------------------------
(* SpecLoad: loads of a fresh matcher, or of one that holds a pattern, with  *)
(* every outcome of os.Open and a Read failure after any number of bytes.    *)

\* bound of SpecLoad: the number of LoadIgnoreFile calls
MaxLoads == 1

InitLoad ==
    /\ im \in {NewIgnoreMatcher(Root),
               [NewIgnoreMatcher(Root) EXCEPT !.patterns = addPattern(@, "build/")]}
    /\ nCalls = 0
    /\ last = NoCall
    /\ test = NoTest
    /\ active = FALSE
    /\ stream = <<>>

LoadAny ==
    /\ nCalls < MaxLoads
    /\ \E path \in FilePaths : \E open \in IOResults : \E n \in ReadCounts(path) :
           LoadIgnoreFile(path, open, n)
    /\ UNCHANGED test

NextLoad == LoadAny \/ Return

SpecLoad == InitLoad /\ [][NextLoad]_vars

-----------------------------------------------------------------------------
(* the claims *)

\* the call that has just returned is im.ShouldIgnore(Root/rel)
Asked(rel) ==
    /\ last.op = "ShouldIgnore"
    /\ last.recv = "im"
    /\ last.arg = Root \o Separator \o rel

\* the script has run to its end
Ran(script) == test.steps = script /\ test.pc = Len(script)

\* the patterns of a list that decide the path, by index
Deciding(patterns, relPath) ==
    {i \in 1..Len(patterns) : patternHits(patterns[i], relPath) = YES}

Highest(S) == CHOOSE i \in S : \A j \in S : j <= i

\* C1: last match wins.  Whenever im.ShouldIgnore(path) returns, its result is
\* the negation of the negate flag of the last pattern, in insertion order, that
\* matches the path, and false when no pattern matches; so a pattern and its
\* negation, both matching, give false in the order [A, !A] and true in the
\* order [!A, A].
C1_LastMatchWins ==
    (last.op = "ShouldIgnore" /\ last.recv = "im" /\ ~last.panic) =>
        LET rel == relPathOf(im.root, last.arg)
            D   == Deciding(im.patterns, rel)
        IN  /\ last.ret = (IF D = {} THEN FALSE ELSE ~im.patterns[Highest(D)].isNegate)
            /\ (/\ Len(im.patterns) = 2
                /\ im.patterns[1].pattern = im.patterns[2].pattern
                /\ im.patterns[1].isDir = im.patterns[2].isDir
                /\ im.patterns[1].isNegate # im.patterns[2].isNegate
                /\ D # {})
               => last.ret = im.patterns[1].isNegate

\* [A, !A] on a path that A matches gave false, after a pattern that matched
C1_Witness ==
    /\ last.op = "ShouldIgnore" /\ last.recv = "im" /\ ~last.panic
    /\ Len(im.patterns) = 2
    /\ im.patterns[1].pattern = im.patterns[2].pattern
    /\ ~im.patterns[1].isNegate /\ im.patterns[2].isNegate
    /\ Deciding(im.patterns, relPathOf(im.root, last.arg)) = {1, 2}
    /\ last.ret = FALSE

\* C2: anchoring.  With the single pattern "/src", ShouldIgnore is true for the
\* root-level path src and false for lib/src.
C2_Anchored ==
    Ran(<<Add("/src")>>) =>
        /\ Asked("src") => (~last.panic /\ last.ret)
        /\ Asked("lib/src") => (~last.panic /\ ~last.ret)

\* C3: directory propagation.  With the single pattern "build/", ShouldIgnore
\* is true for build, build/output and build/output/file.txt, and false for
\* builder, whatever os.Stat says of them.
C3_DirectoryPropagation ==
    Ran(<<Add("build/")>>) =>
        /\ \A rel \in {"build", "build/output", "build/output/file.txt"} :
               Asked(rel) => (~last.panic /\ last.ret)
        /\ Asked("builder") => (~last.panic /\ ~last.ret)

\* the file below build/output was asked about as a file and is ignored
C3_Witness ==
    /\ Ran(<<Add("build/")>>)
    /\ Asked("build/output/file.txt") /\ last.stat = "file" /\ last.ret

\* the paths TestIgnoreMatcher expects to be ignored, and not to be
C4_Ignored ==
    {".git", ".git/objects", "node_modules", "node_modules/package1", "build",
     "build/output", "test.log", "src/debug.log"}
C4_Kept == {"build/important.log", "src", "src/main", "docs"}

\* C4: a later negated pattern re-includes a file under an ignored directory.
\* After TestIgnoreMatcher's five AddPattern calls, ShouldIgnore is true for
\* every path of C4_Ignored and false for every path of C4_Kept.
C4_NegationReincludes ==
    Ran(TestIgnoreMatcher) =>
        /\ \A rel \in C4_Ignored : Asked(rel) => (~last.panic /\ last.ret)
        /\ \A rel \in C4_Kept : Asked(rel) => (~last.panic /\ ~last.ret)

\* build/important.log is kept although "build/" and "*.log" both match it
C4_Witness ==
    /\ Ran(TestIgnoreMatcher)
    /\ Asked("build/important.log") /\ ~last.ret
    /\ {3, 4, 5} \subseteq Deciding(im.patterns, "build/important.log")

\* C5: doublestar at any depth, whatever os.Stat says (also when it fails).
\* "**/*.log" ignores debug.log, src/debug.log and src/logs/error.log;
\* "**/node_modules/" ignores node_modules, src/node_modules and
\* src/lib/node_modules; "src/**/test/" ignores src/test, src/a/test and
\* src/a/b/test and does not ignore test, other/test or src/main.go.
C5_Doublestar ==
    /\ Ran(<<Add("**/*.log")>>) =>
           \A rel \in {"debug.log", "src/debug.log", "src/logs/error.log"} :
               Asked(rel) => (~last.panic /\ last.ret)
    /\ (test.steps = TestDoublestarPatterns /\ test.pc = 1) =>
           \A rel \in {"node_modules", "src/node_modules", "src/lib/node_modules"} :
               Asked(rel) => (~last.panic /\ last.ret)
    /\ Ran(<<Add("src/**/test/")>>) =>
           /\ \A rel \in {"src/test", "src/a/test", "src/a/b/test"} :
                  Asked(rel) => (~last.panic /\ last.ret)
           /\ \A rel \in {"test", "other/test", "src/main.go"} :
                  Asked(rel) => (~last.panic /\ ~last.ret)

\* src/a/b/test does not exist and is ignored by "src/**/test/"
C5_Witness ==
    /\ Ran(<<Add("src/**/test/")>>)
    /\ Asked("src/a/b/test") /\ last.stat = "error" /\ last.ret

\* the set TestIgnoreWithWatch installs, and the events it must not receive
WatchSet == [NewIgnoreMatcher(Root) EXCEPT !.patterns = addPatterns(@, <<".git/", "node_modules/", "*.tmp">>)]
WatchIgnored == {".git/config", "node_modules/package.json", "test.tmp"}

\* C6: delivery filtering.  An event in the delivered stream was filtered by
\* the set installed when it was delivered: ShouldIgnore under that set is
\* false for its path; so under the set [.git/, node_modules/, *.tmp] no event
\* for .git/config, node_modules/package.json or test.tmp is ever delivered.
C6_DeliveryFiltering ==
    \A k \in 1..Len(stream) :
        /\ stream[k].set # Nil =>
               \A stat \in StatResults :
                   shouldIgnore(stream[k].set, stream[k].path, stat)
                       = [panic |-> FALSE, ret |-> FALSE]
        /\ stream[k].set = WatchSet =>
               \A rel \in WatchIgnored : stream[k].path # Root \o Separator \o rel

\* the event of an ignored file has been dropped under the installed test set
\* while an event filtered by that set is in the stream
C6_Witness ==
    /\ active /\ im = WatchSet
    /\ last.op = "Deliver" /\ last.arg = Root \o Separator \o ".git/config" /\ last.ret
    /\ stream # <<>> /\ stream[Len(stream)].set = WatchSet

\* lines that hold no pattern
NoPatternLines == {"# c", " \t"}

\* C7: no set, or an empty one, ignores nothing.  ShouldIgnore on a nil
\* matcher or on a matcher without patterns returns false, and an AddPattern
\* call with a blank or comment line leaves the matcher as it was.
C7_EmptyIgnoresNothing ==
    /\ []((last.op = "ShouldIgnore" /\ (last.recv = "nil" \/ Len(im.patterns) = 0))
             => (~last.panic /\ ~last.ret))
    /\ [][(last'.op = "AddPattern" /\ last'.arg \in NoPatternLines) => im' = im]_vars

\* a matcher still empty after two blank or comment lines ignored nothing
C7_Witness ==
    /\ nCalls = 2 /\ Len(im.patterns) = 0
    /\ last.op = "ShouldIgnore" /\ last.recv = "im" /\ ~last.ret

\* C8: load and add agree.  A LoadIgnoreFile call that returns nil for a file
\* that exists leaves the patterns that AddPattern, called on each line of the
\* file in order, would leave, so every ShouldIgnore result is the same.
C8_LoadEqualsAdd ==
    [][(last'.op = "LoadIgnoreFile" /\ last'.arg \in DOMAIN Disk /\ last'.err = "nil")
          => /\ im'.root = im.root
             /\ im'.patterns = addPatterns(im.patterns, FileLines[last'.arg])
             /\ \A path \in Probes :
                    shouldIgnore(im', path, "file")
                        = shouldIgnore([im EXCEPT !.patterns =
                                           addPatterns(@, FileLines[last'.arg])],
                                       path, "file")]_vars

\* a file with a blank line, a comment and no final end of line was loaded on
\* top of an earlier pattern
C8_Witness ==
    /\ last.op = "LoadIgnoreFile" /\ last.arg = ".gitignore" /\ last.err = "nil"
    /\ Len(im.patterns) = 3

\* C9: patterns loaded from a file act on paths that do not exist.  After
\* TestLoadIgnoreFile's load, ShouldIgnore on paths os.Stat fails on returns
\* true for .git, build, node_modules and build/output.bin, false for
\* build/keep.txt and src, and does not fail.
C9_LoadedOnMissingPaths ==
    (Ran(TestLoadIgnoreFile) /\ last.op = "ShouldIgnore" /\ last.stat = "error") =>
        /\ ~last.panic
        /\ \A rel \in {".git", "build", "node_modules", "build/output.bin"} :
               Asked(rel) => last.ret
        /\ \A rel \in {"build/keep.txt", "src"} : Asked(rel) => ~last.ret

\* build/output.bin does not exist and is ignored by the loaded "build/"
C9_Witness ==
    /\ Ran(TestLoadIgnoreFile)
    /\ Asked("build/output.bin") /\ last.stat = "error" /\ last.ret

\* C10: a missing ignore file is a silent no-op.  LoadIgnoreFile on a path
\* that does not exist returns nil and leaves the matcher as it was.
C10_MissingFileNoOp ==
    [][(last'.op = "LoadIgnoreFile" /\ last'.arg \notin DOMAIN Disk)
          => (last'.err = "nil" /\ im' = im)]_vars

\* a missing file was loaded into a matcher that had a pattern, and it kept it
C10_Witness ==
    /\ last.op = "LoadIgnoreFile" /\ last.arg = "absent.ignore" /\ last.err = "nil"
    /\ Len(im.patterns) = 1

\* C11: brace alternation.  With the single pattern "*.{jpg,png}",
\* ShouldIgnore is true for photo.jpg and photo.png, at the root and below
\* it, and false for photo.gif.
C11_BraceAlternation ==
    Ran(<<Add("*.{jpg,png}")>>) =>
        /\ \A rel \in {"photo.jpg", "photo.png", "img/photo.jpg", "img/photo.png"} :
               Asked(rel) => (~last.panic /\ last.ret)
        /\ Asked("photo.gif") => (~last.panic /\ ~last.ret)

\* what the matcher does with the braces: they are literal characters
C11_BracesLiteral ==
    Ran(<<Add("*.{jpg,png}")>>) =>
        \A rel \in TestRelPaths :
            Asked(rel) => (~last.panic /\ last.ret = (rel = "photo.{jpg,png}"))

\* unanchored patterns without "**", "!" or a trailing "/"
UnanchoredBodies == {"src", "a/test", "temp*", "*.{jpg,png}"}

\* the segments of a path, and the paths left when leading segments are dropped
Segments(rel) == {Split(rel, "/")[i] : i \in 1..Len(Split(rel, "/"))}
Suffixes(rel) ==
    {Join(SubSeq(Split(rel, "/"), i, Len(Split(rel, "/"))), "/") :
        i \in 1..Len(Split(rel, "/"))}
Basename(rel) == Split(rel, "/")[Len(Split(rel, "/"))]

\* C12 as stated: an unanchored pattern without "**" matches a path if and
\* only if its glob matches the full path, a suffix left by dropping leading
\* segments, or the final segment alone; a match of an intermediate segment
\* only (pattern "src", path src/main.go) is not a match.
C12_StatedPositions ==
    \A body \in UnanchoredBodies : \A rel \in TestRelPaths :
        (Ran(<<Add(body)>>) /\ Asked(rel)) =>
            /\ ~last.panic
            /\ last.ret = \/ \E sub \in Suffixes(rel) : Match(body, sub)
                          \/ Match(body, Basename(rel))

\* C12, amended: an unanchored pattern without "**" matches a path if and
\* only if its glob matches the full path, a suffix left by dropping leading
\* segments, or any single segment of the path, final or not; so the pattern
\* "src" matches src/main.go.
C12_AnySegment ==
    \A body \in UnanchoredBodies : \A rel \in TestRelPaths :
        (Ran(<<Add(body)>>) /\ Asked(rel)) =>
            /\ ~last.panic
            /\ last.ret = \/ \E sub \in Suffixes(rel) : Match(body, sub)
                          \/ \E seg \in Segments(rel) : Match(body, seg)

\* "src" matched src/main.go, of which it matches the first segment only
C12_Witness ==
    /\ Ran(<<Add("src")>>) /\ Asked("src/main.go") /\ last.ret
    /\ ~\E sub \in Suffixes("src/main.go") : Match("src", sub)
    /\ Match("src", "src") /\ ~Match("src", Basename("src/main.go"))

\* C13: "**" stands for complete path segments.  With the single pattern
\* "src/**/test", ShouldIgnore is true for src/test and src/a/test, and false
\* for src/mytest (the suffix is found inside a segment only) and for
\* srcfoo/test (the prefix ends inside a segment).
C13_CompleteSegments ==
    Ran(<<Add("src/**/test")>>) =>
        /\ \A rel \in {"src/test", "src/a/test"} :
               Asked(rel) => (~last.panic /\ last.ret)
        /\ \A rel \in {"src/mytest", "srcfoo/test"} :
               Asked(rel) => (~last.panic /\ ~last.ret)

\* what the matcher does: both paths that cut a segment are matched
C13_InsideSegments ==
    Ran(<<Add("src/**/test")>>) =>
        \A rel \in {"src/test", "src/a/test", "src/mytest", "srcfoo/test"} :
            Asked(rel) => (~last.panic /\ last.ret)

\* the directories above a path: its parent and the ancestors of its parent
Ancestors(rel) ==
    {Join(SubSeq(Split(rel, "/"), 1, i), "/") : i \in 1..(Len(Split(rel, "/")) - 1)}

\* C14: directory-only patterns match directories, not files of the same
\* name.  With the single pattern "build/", a candidate that is a regular
\* file is ignored only if the pattern matches one of the directories above
\* it; so a regular file named build at the root is not ignored.
C14_DirectoriesOnly ==
    (Ran(<<Add("build/")>>) /\ last.op = "ShouldIgnore" /\ last.stat = "file") =>
        /\ \A rel \in TestRelPaths :
               (Asked(rel) /\ last.ret) =>
                   \E dir \in Ancestors(rel) : matchPattern("build", dir) = YES
        /\ Asked("build") => (~last.panic /\ ~last.ret)

\* what the matcher does: the answer for build does not depend on os.Stat
C14_FileIgnored ==
    (Ran(<<Add("build/")>>) /\ Asked("build")) => (~last.panic /\ last.ret)

\* a is the beginning of b
IsPrefix(a, b) == Len(a) <= Len(b) /\ SubSeq(b, 1, Len(a)) = a

\* C15: the pattern sequence is append-only.  Across every call the sequence
\* held before is the beginning of the sequence held after; AddPattern makes
\* it longer by exactly one for a line that holds a pattern and leaves it as
\* it was for a blank or comment line; ShouldIgnore leaves it as it was.
C15_AppendOnly ==
    [][/\ im'.root = im.root
       /\ IsPrefix(im.patterns, im'.patterns)
       /\ last'.op = "AddPattern" =>
              Len(im'.patterns) = Len(im.patterns)
                                    + (IF last'.arg \in NoPatternLines THEN 0 ELSE 1)
       /\ last'.op = "ShouldIgnore" => im'.patterns = im.patterns]_vars

\* the same line was added twice and is held twice
C15_Witness ==
    /\ last.op = "AddPattern" /\ last.arg = "build/"
    /\ Len(im.patterns) = 2 /\ im.patterns[1] = im.patterns[2]

\* the lines of a file that end within its first n bytes
CompleteLines(path, n) ==
    SubSeq(FileLines[path], 1,
           Cardinality({i \in 1..n : At(Disk[path], i - 1) = "\n"}))

\* C16: LoadIgnoreFile is best-effort, not transactional.  A load of a file
\* that exists returns nil only if the whole file was added; when os.Open or
\* a Read fails it returns the error, the patterns held before the call stay
\* as they were at the head of the list, and the patterns of the lines read in
\* full before the failure follow them in file order (followed by at most one
\* more pattern, from the bytes of an unfinished line); a failed open adds
\* nothing.
C16_BestEffortLoad ==
    [][(last'.op = "LoadIgnoreFile" /\ last'.arg \in DOMAIN Disk) =>
          /\ im'.root = im.root
          /\ IsPrefix(im.patterns, im'.patterns)
          /\ last'.err = "nil" =>
                 im'.patterns = addPatterns(im.patterns, FileLines[last'.arg])
          /\ last'.err = "open" => im'.patterns = im.patterns
          /\ last'.err = "read" =>
                 LET read == addPatterns(im.patterns,
                                         CompleteLines(last'.arg, last'.n))
                 IN  /\ IsPrefix(read, im'.patterns)
                     /\ Len(im'.patterns) <= Len(read) + 1]_vars

\* a Read failed inside the last line of the test's file: the load returned the
\* error and the matcher holds its earlier pattern, the four read before, and
\* one made of the bytes read of the last line
C16_Witness ==
    /\ last.op = "LoadIgnoreFile" /\ last.arg = ".notifyignore" /\ last.err = "read"
    /\ Len(CompleteLines(".notifyignore", last.n)) = 5
    /\ Len(im.patterns) = 6
    /\ im.patterns[1] = [pattern |-> "build", isNegate |-> FALSE, isDir |-> TRUE]
    /\ im.patterns[5] = [pattern |-> "build/keep.txt", isNegate |-> TRUE, isDir |-> FALSE]
    /\ im.patterns[6] = [pattern |-> "node", isNegate |-> FALSE, isDir |-> FALSE]

====
